---- MODULE Spec2Model ----
(***************************************************************************)
(* whatsapp-golem: the per-sender sliding-window rate limiter, the         *)
(* trigger / command classifier and the message_create handler that ties   *)
(* them to the planner, the context gathering and the executor; further   *)
(* the cleaning of the inbound body, the parsing of the planner's answer   *)
(* into a plan and the assembly of the context by gatherContext, each as a *)
(* specification of its own over the same variables.                       *)
(*                                                                         *)
(* Strings are sequences of one-character strings, so that includes,       *)
(* startsWith and toLowerCase are computed, not assumed.  The loop marker  *)
(* (one emoji in the source) is the single character "moai", the stop sign *)
(* of the rate-limit notice is "stop" and the bug of the failure notice is *)
(* "bug".  Time is counted in clock ticks, TicksPerHour ticks to the hour. *)
(***************************************************************************)
EXTENDS Integers, Sequences, FiniteSets, TLC

\* ------------------------------------------------------------------ bounds
MaxLimit == 2
MaxWindowHours == 1
TicksPerHour == 2
MaxTime == 3
MaxFrags == 2
MaxRanges == 2
MaxStamp == 4
MaxTranscribes == 3

\* ----------------------------------------------------------------- strings
LowerChar(c) ==
    CASE c = "G" -> "g"
      [] c = "T" -> "t"
      [] c = "H" -> "h"
      [] c = "B" -> "b"
      [] c = "R" -> "r"
      [] c = "E" -> "e"
      [] OTHER -> c

toLowerCase(s) == [i \in 1..Len(s) |-> LowerChar(s[i])]

includes(s, sub) ==
    \E i \in 0..(Len(s) - Len(sub)) : SubSeq(s, i + 1, i + Len(sub)) = sub

startsWith(s, p) == Len(p) <= Len(s) /\ SubSeq(s, 1, Len(p)) = p

\* ------------------------------------------------------------------- state
VARIABLES
    cfg,        \* the loaded AppConfig (bot section)
    requests,   \* RateLimiter.requests: sender -> admitted timestamps kept
    now,        \* Date.now(), in ticks
    admitted,   \* history: sender -> every timestamp ever admitted
    last,       \* history: the latest canRequest call and its answer
    pc,         \* per message task: where the handler is suspended
    msg,        \* per message task: the inbound message
    calls,      \* per message task: collaborator calls made so far
    replies,    \* per message task: message.reply calls made so far
    body,       \* classifier run: the body under classification
    verdict,    \* classifier run: what the classifier answered
    cleanBody,  \* input preparation: the cleaned body handed to the planner
    rawContent, \* planner run: the content of the model's response
    plan,       \* planner run: what plan() returned
    turn,       \* context gathering: the message, its plan and the chat
    gpc,        \* context gathering: where gatherContext is suspended
    contextMessages,    \* context gathering: the units pushed so far
    gcalls,     \* context gathering: transport and audio calls made so far
    cache,      \* AudioService.cache: media id -> transcription, if any
    atask,      \* per transcribe call in flight: its position and result
    heard,      \* history: media id -> the texts transcribe has returned
    transcribes,\* history: the number of transcribe calls made
    execution,  \* executor run: the model chosen and what became of it
    plannerContext \* getPlannerContext run: its calls and the lines returned

vars == <<cfg, requests, now, admitted, last, pc, msg, calls, replies, body,
          verdict, cleanBody, rawContent, plan, turn, gpc, contextMessages,
          gcalls, cache, atask, heard, transcribes, execution,
          plannerContext>>

Senders == {"a", "b"}
Owner == "me"
Ids == Senders \cup {Owner}
Tasks == {"t1", "t2"}

\* ------------------------------------------------------------------ config
Moai == <<"moai">>
TrigGolem == <<"@", "g", "o", "l", "e", "m">>
TrigG == <<"@", "g">>
TrigBot == <<"@", "B", "o", "t">>

DefaultTriggers == <<TrigGolem, TrigG>>

\* config.yaml may replace the trigger list; the second list is one a user
\* writes with a capital letter.
TriggerLists == {DefaultTriggers, <<TrigBot>>}

DefaultWindowHours == 1

Configs(triggerLists, hours) ==
    [triggers : triggerLists,
     ignoreLoopEmoji : {Moai},
     maxRequests : 1..MaxLimit,
     windowHours : hours]

\* -------------------------------------------------------------- classifier
AtTranscribe == <<"@", "t", "r", "a", "n", "s", "c", "r", "i", "b", "e">>
AtT == <<"@", "t">>
GHelp == <<"@", "g", " ", "h", "e", "l", "p">>
GolemHelp == <<"@", "g", "o", "l", "e", "m", " ", "h", "e", "l", "p">>

isLoopMessageAtStart(b, c) == startsWith(b, c.ignoreLoopEmoji)

isLoopMessage(b, c) == includes(b, c.ignoreLoopEmoji)

isExplicitTranscription(b) == startsWith(b, AtTranscribe) \/ startsWith(b, AtT)

isTriggeredMessage(b, c) ==
    \/ \E i \in 1..Len(c.triggers) : includes(toLowerCase(b), c.triggers[i])
    \/ startsWith(b, AtTranscribe)
    \/ startsWith(b, AtT)

isHelpCommandCaseSensitive(b) == b = GHelp \/ b = GolemHelp

isHelpCommand(b) == toLowerCase(b) = GHelp \/ toLowerCase(b) = GolemHelp

\* The reply texts.  The help text keeps its head and its tail; the
\* sentences between them hold neither a marker nor an "@".
HelpTextBody ==
    <<" ", "*", "G", "o", "l", "e", "m", " ", "B", "o", "t", " ", "*", "T",
      "r", "y", " ", "r", "e", "p", "l", "y", "i", "n", "g", " ", "t", "o",
      " ", "a", "n", " ", "a", "u", "d", "i", "o", " ", "n", "o", "t", "e",
      " ", "w", "i", "t", "h", " ", "'", "@", "g", " ", "l", "i", "s", "t",
      "e", "n", "'", "!">>

helpText(c) == c.ignoreLoopEmoji \o HelpTextBody

rateLimitText ==
    <<"stop", " ", "R", "a", "t", "e", " ", "l", "i", "m", "i", "t", " ",
      "e", "x", "c", "e", "e", "d", "e", "d", " ", "(", "1", "0", " ", "r",
      "e", "q", "u", "e", "s", "t", "s", "/", "h", "o", "u", "r", ")", ".",
      " ", "T", "r", "y", " ", "a", "g", "a", "i", "n", " ", "l", "a", "t",
      "e", "r", ".">>

errorTextBody ==
    <<"bug", " ", "E", "r", "r", "o", "r", " ", "p", "r", "o", "c", "e",
      "s", "s", "i", "n", "g", " ", "y", "o", "u", "r", " ", "r", "e", "q",
      "u", "e", "s", "t", ".">>

errorText(c) == c.ignoreLoopEmoji \o errorTextBody

answerText(c, responseText) == c.ignoreLoopEmoji \o <<" ">> \o responseText

\* ------------------------------------------------------------ rate limiter
limit == cfg.maxRequests
windowMs == cfg.windowHours * TicksPerHour

validTimestamps(timestamps, t) ==
    SelectSeq(timestamps, LAMBDA ts : t - ts < windowMs)

canRequestAllowedOffByOne(reqs, userId, t) ==
    ~ (Len(validTimestamps(reqs[userId], t)) > limit)

canRequestAllowed(reqs, userId, t) ==
    ~ (Len(validTimestamps(reqs[userId], t)) >= limit)

canRequestDeniedAlsoRecords(reqs, userId, t) ==
    [reqs EXCEPT ![userId] = Append(validTimestamps(reqs[userId], t), t)]

canRequestOverwrites(reqs, userId, t) ==
    IF canRequestAllowed(reqs, userId, t)
    THEN [reqs EXCEPT ![userId] = <<t>>]
    ELSE reqs

canRequestOneWindowForAll(reqs, userId, t) ==
    IF canRequestAllowed(reqs, userId, t)
    THEN [s \in DOMAIN reqs |-> Append(validTimestamps(reqs[userId], t), t)]
    ELSE reqs

canRequestStore(reqs, userId, t) ==
    IF canRequestAllowed(reqs, userId, t)
    THEN [reqs EXCEPT ![userId] = Append(validTimestamps(reqs[userId], t), t)]
    ELSE reqs

NoCall ==
    [userId |-> "none", at |-> 0, allowed |-> FALSE, flip |-> FALSE,
     afterDenial |-> FALSE]

\* One call of RateLimiter.canRequest(userId) at the current time, with the
\* history the claims are stated over: the call itself, and whether the call
\* before it was a denied call of the same sender.
canRequest(userId) ==
    LET ok == canRequestAllowed(requests, userId, now) IN
    /\ requests' = canRequestStore(requests, userId, now)
    /\ admitted' = IF ok THEN [admitted EXCEPT ![userId] = Append(@, now)]
                         ELSE admitted
    /\ last' = [userId |-> userId, at |-> now, allowed |-> ok,
                flip |-> ~ last.flip,
                afterDenial |-> last.userId = userId /\ ~ last.allowed]

\* -------------------------------------------------------------- task state
NoMsg == [from |-> "none", fromMe |-> FALSE, body |-> <<>>]

TasksIdle ==
    /\ pc = [t \in Tasks |-> "idle"]
    /\ msg = [t \in Tasks |-> NoMsg]
    /\ calls = [t \in Tasks |-> {}]
    /\ replies = [t \in Tasks |-> <<>>]

NoVerdict == [done |-> FALSE, triggered |-> FALSE, outcome |-> "none"]

taskVars == <<pc, msg, calls, replies>>
clsVars == <<body, verdict>>

\* Nothing cleaned, planned or gathered yet.
NoClean == [done |-> FALSE, text |-> <<>>]
NoPlan == [done |-> FALSE]
NoTurn == [started |-> FALSE]

planVars == <<rawContent, plan>>
gatherVars == <<turn, gpc, contextMessages, gcalls>>

\* The media ids transcribed and the tasks that call transcribe.
MediaIds == {"v1", "v2"}
ATasks == {"p", "r"}

NoTranscribe ==
    [pc |-> "idle", mediaId |-> "none", invoked |-> FALSE, text |-> "",
     before |-> {}, afterFailure |-> FALSE]
NoExecution ==
    [pc |-> "idle", model |-> "none", invoked |-> <<>>, persona |-> "none",
     techStack |-> FALSE, content |-> <<>>]

NoPlannerContext == [pc |-> "idle", calls |-> <<>>, lines |-> <<>>]

audioVars == <<cache, atask, heard, transcribes>>

\* The transcription cache is empty, no transcribe call is in flight and
\* the executor has not been called.
ServicesIdle ==
    /\ cache = [id \in MediaIds |-> <<>>]
    /\ atask = [t \in ATasks |-> NoTranscribe]
    /\ heard = [id \in MediaIds |-> {}]
    /\ transcribes = 0
    /\ execution = NoExecution
    /\ plannerContext = NoPlannerContext

runVars ==
    <<cleanBody, planVars, gatherVars, audioVars, execution, plannerContext>>

RunsIdle ==
    /\ cleanBody = NoClean
    /\ rawContent = <<>>
    /\ plan = NoPlan
    /\ turn = NoTurn
    /\ gpc = "idle"
    /\ contextMessages = <<>>
    /\ gcalls = <<>>
    /\ ServicesIdle

\* ------------------------------------------- the rate limiter on its own
InitRL ==
    /\ cfg \in Configs({DefaultTriggers}, 1..MaxWindowHours)
    /\ requests = [s \in Ids |-> <<>>]
    /\ now = 0
    /\ admitted = [s \in Ids |-> <<>>]
    /\ last = NoCall
    /\ TasksIdle
    /\ body = <<>>
    /\ verdict = NoVerdict
    /\ RunsIdle

Tick ==
    /\ now < MaxTime
    /\ now' = now + 1
    /\ UNCHANGED <<cfg, requests, admitted, last, taskVars, clsVars, runVars>>

Admit ==
    \E userId \in Senders :
        /\ canRequest(userId)
        /\ UNCHANGED <<cfg, now, taskVars, clsVars, runVars>>

NextRL == Tick \/ Admit

SpecRL == InitRL /\ [][NextRL]_vars

\* ------------------------------------------------- message_create handler
Hi == <<"h", "i">>

\* Bodies the handler is run on: triggered, untriggered, help in mixed case,
\* marker after a trigger, marker alone.
HandlerBodies ==
    {TrigG \o <<" ">> \o Hi, Hi, <<"@", "G", " ", "H", "e", "l", "p">>,
     TrigG \o Moai, Moai \o Hi}

\* A message of the owner account carries fromMe and the owner's id; any
\* other message carries its sender's id.
Messages ==
    {m \in [from : Ids, fromMe : BOOLEAN, body : HandlerBodies] :
        m.fromMe <=> m.from = Owner}

ResponseTexts == {<<"o", "k">>, TrigG \o <<" ">> \o Hi}

Reply(kind, text) == [kind |-> kind, text |-> text, delivered |-> FALSE]

sendReply(t, kind, text) ==
    replies' = [replies EXCEPT ![t] = Append(@, Reply(kind, text))]

replyDelivered(t) ==
    replies' = [replies EXCEPT ![t][Len(replies[t])].delivered = TRUE]

goto(t, label) == pc' = [pc EXCEPT ![t] = label]

called(t, names) == calls' = [calls EXCEPT ![t] = @ \cup names]

rlVars == <<requests, admitted, last>>

catchErrorAfterDelivery(t) ==
    /\ replies' =
          [replies EXCEPT ![t] =
              Append(IF @ = <<>> THEN @
                     ELSE [@ EXCEPT ![Len(@)].delivered = TRUE],
                     Reply("error", errorText(cfg)))]
    /\ goto(t, "errorReply")

catchErrorRetries(t) ==
    /\ goto(t, "gatherContext")
    /\ UNCHANGED replies

\* The catch block of the handler: one failure notice.
catchError(t) ==
    /\ sendReply(t, "error", errorText(cfg))
    /\ goto(t, "errorReply")

shouldProcessAlways(m, c) == TRUE

\* What handleTriggersAndCommands resolves to when the body is no help phrase.
shouldProcess(m, c) == isTriggeredMessage(m.body, c)

rateLimitAppliesToAll(m) == TRUE

rateLimitApplies(m) == ~ m.fromMe

\* The event of message m arrives at an idle task: loop check, trigger match
\* and help test run to the first await.
onMessageCreate(t, m) ==
    /\ pc[t] = "idle"
    /\ msg' = [msg EXCEPT ![t] = m]
    /\ IF isLoopMessage(m.body, cfg)
       THEN /\ goto(t, "done")
            /\ UNCHANGED <<calls, replies>>
       ELSE /\ called(t, {"isTriggeredMessage"})
            /\ IF isHelpCommand(m.body)
               THEN /\ sendReply(t, "help", helpText(cfg))
                    /\ goto(t, "helpReply")
               ELSE /\ goto(t, "triggers")
                    /\ UNCHANGED replies
    /\ UNCHANGED <<cfg, now, rlVars, clsVars, runVars>>

\* A message of a chat arrives.
Receive(t) == \E m \in Messages : onMessageCreate(t, m)

\* message.reply of the help text settles.
HelpReplied(t) ==
    /\ pc[t] = "helpReply"
    /\ \/ replyDelivered(t) /\ goto(t, "done")
       \/ catchError(t)
    /\ UNCHANGED <<cfg, now, rlVars, msg, calls, clsVars, runVars>>

\* handleTriggersAndCommands has resolved; checkRateLimit runs to its await.
AfterTriggers(t) ==
    /\ pc[t] = "triggers"
    /\ IF ~ shouldProcess(msg[t], cfg)
       THEN /\ goto(t, "done")
            /\ UNCHANGED <<rlVars, calls, replies>>
       ELSE IF rateLimitApplies(msg[t])
       THEN /\ called(t, {"canRequest"})
            /\ canRequest(msg[t].from)
            /\ IF canRequestAllowed(requests, msg[t].from, now)
               THEN goto(t, "admitted") /\ UNCHANGED replies
               ELSE /\ sendReply(t, "rate", rateLimitText)
                    /\ goto(t, "rateReply")
       ELSE /\ goto(t, "admitted")
            /\ UNCHANGED <<rlVars, calls, replies>>
    /\ UNCHANGED <<cfg, now, msg, clsVars, runVars>>

RateRepliedProceeds(t) ==
    /\ pc[t] = "rateReply"
    /\ replyDelivered(t) /\ goto(t, "admitted")
    /\ UNCHANGED <<cfg, now, rlVars, msg, calls, clsVars, runVars>>

\* message.reply of the rate-limit notice settles; checkRateLimit returns
\* false and the handler returns.
RateReplied(t) ==
    /\ pc[t] = "rateReply"
    /\ \/ replyDelivered(t) /\ goto(t, "done")
       \/ catchError(t)
    /\ UNCHANGED <<cfg, now, rlVars, msg, calls, clsVars, runVars>>

\* checkRateLimit has resolved to true; message.getChat is called.
Admitted(t) ==
    /\ pc[t] = "admitted"
    /\ called(t, {"getChat"})
    /\ goto(t, "getChat")
    /\ UNCHANGED <<cfg, now, rlVars, msg, replies, clsVars, runVars>>

\* getChat settles; the input is prepared and getPlannerContext is called.
GotChat(t) ==
    /\ pc[t] = "getChat"
    /\ \/ /\ called(t, {"getPlannerContext"})
          /\ goto(t, "plannerContext")
          /\ UNCHANGED replies
       \/ catchError(t) /\ UNCHANGED calls
    /\ UNCHANGED <<cfg, now, rlVars, msg, clsVars, runVars>>

\* getPlannerContext settles; planner.plan is called.
GotPlannerContext(t) ==
    /\ pc[t] = "plannerContext"
    /\ \/ /\ called(t, {"plan"})
          /\ goto(t, "plan")
          /\ UNCHANGED replies
       \/ catchError(t) /\ UNCHANGED calls
    /\ UNCHANGED <<cfg, now, rlVars, msg, clsVars, runVars>>

\* planner.plan settles; gatherContext is called.
GotPlan(t) ==
    /\ pc[t] = "plan"
    /\ \/ /\ called(t, {"gatherContext"})
          /\ goto(t, "gatherContext")
          /\ UNCHANGED replies
       \/ catchError(t) /\ UNCHANGED calls
    /\ UNCHANGED <<cfg, now, rlVars, msg, clsVars, runVars>>

\* gatherContext settles (the media downloads, the transcription and the
\* history fetch are made inside it); executor.execute is called.
Gathered(t) ==
    /\ pc[t] = "gatherContext"
    /\ \/ /\ called(t, {"execute"})
          /\ goto(t, "execute")
          /\ UNCHANGED replies
       \/ catchError(t) /\ UNCHANGED calls
    /\ UNCHANGED <<cfg, now, rlVars, msg, clsVars, runVars>>

\* executor.execute settles; the answer is sent.
Executed(t) ==
    /\ pc[t] = "execute"
    /\ \/ \E responseText \in ResponseTexts :
            /\ sendReply(t, "answer", answerText(cfg, responseText))
            /\ goto(t, "answerReply")
       \/ catchError(t)
    /\ UNCHANGED <<cfg, now, rlVars, msg, calls, clsVars, runVars>>

\* message.reply of the answer settles.
AnswerReplied(t) ==
    /\ pc[t] = "answerReply"
    /\ \/ replyDelivered(t) /\ goto(t, "done")
       \/ catchError(t)
    /\ UNCHANGED <<cfg, now, rlVars, msg, calls, clsVars, runVars>>

\* message.reply of the failure notice settles; a rejection here leaves the
\* handler's promise rejected.
ErrorReplied(t) ==
    /\ pc[t] = "errorReply"
    /\ \/ replyDelivered(t) /\ goto(t, "done")
       \/ goto(t, "unhandled") /\ UNCHANGED replies
    /\ UNCHANGED <<cfg, now, rlVars, msg, calls, clsVars, runVars>>

Init ==
    /\ cfg \in Configs({DefaultTriggers}, {DefaultWindowHours})
    /\ requests = [s \in Ids |-> <<>>]
    /\ now = 0
    /\ admitted = [s \in Ids |-> <<>>]
    /\ last = NoCall
    /\ TasksIdle
    /\ body = <<>>
    /\ verdict = NoVerdict
    /\ RunsIdle

Next ==
    \/ Tick
    \/ \E t \in Tasks :
        \/ Receive(t)
        \/ HelpReplied(t)
        \/ AfterTriggers(t)
        \/ RateReplied(t)
        \/ Admitted(t)
        \/ GotChat(t)
        \/ GotPlannerContext(t)
        \/ GotPlan(t)
        \/ Gathered(t)
        \/ Executed(t)
        \/ AnswerReplied(t)
        \/ ErrorReplied(t)

Spec == Init /\ [][Next]_vars

\* ------------------------------------------------ the classifier on its own
Fragments ==
    {TrigG, <<"@", "G">>, TrigGolem, TrigBot, <<"@", "b", "o", "t">>,
     AtT, <<"@", "T">>, AtTranscribe,
     <<" ", "h", "e", "l", "p">>, <<" ", "H", "e", "l", "p">>,
     Moai, Hi, <<" ">>}

RECURSIVE Concats(_)
Concats(k) ==
    IF k = 0 THEN {<<>>}
    ELSE LET shorter == Concats(k - 1) IN
         shorter \cup {b \o f : b \in shorter, f \in Fragments}

Bodies == Concats(MaxFrags)

\* The handler's decisions on one body, in the handler's order.
classify(b, c) ==
    [done |-> TRUE,
     triggered |-> isTriggeredMessage(b, c),
     outcome |-> IF isLoopMessage(b, c) THEN "Ignore(loop)"
                 ELSE IF isHelpCommand(b) THEN "HelpReply"
                 ELSE IF isTriggeredMessage(b, c) THEN "Proceed"
                 ELSE "Ignore(untriggered)"]

InitClassify ==
    /\ cfg \in Configs(TriggerLists, {DefaultWindowHours})
    /\ requests = [s \in Ids |-> <<>>]
    /\ now = 0
    /\ admitted = [s \in Ids |-> <<>>]
    /\ last = NoCall
    /\ TasksIdle
    /\ body \in Bodies
    /\ verdict = NoVerdict
    /\ RunsIdle

Classify ==
    /\ ~ verdict.done
    /\ verdict' = classify(body, cfg)
    /\ UNCHANGED <<cfg, now, rlVars, taskVars, body, runVars>>

NextClassify == Classify

SpecClassify == InitClassify /\ [][NextClassify]_vars

\* ------------------------------------------------------- input preparation
\* String.prototype.trim, the blank being the only white space of the model.
trim(s) ==
    LET inked == {i \in 1..Len(s) : s[i] # " "} IN
    IF inked = {} THEN <<>>
    ELSE SubSeq(s, CHOOSE i \in inked : \A j \in inked : i <= j,
                   CHOOSE i \in inked : \A j \in inked : i >= j)

\* s.replace(new RegExp(pats.join('|'), 'gi'), ''): one scan from the left;
\* at each position the first alternative that matches, letter case ignored,
\* is dropped and the scan goes on behind it.
RECURSIVE replaceAll(_, _)
replaceAll(s, pats) ==
    IF s = <<>> THEN <<>>
    ELSE LET hits == {i \in 1..Len(pats) :
                        startsWith(toLowerCase(s), toLowerCase(pats[i]))}
         IN  IF hits = {}
             THEN <<Head(s)>> \o replaceAll(Tail(s), pats)
             ELSE LET first == CHOOSE i \in hits : \A j \in hits : i <= j
                  IN  replaceAll(SubSeq(s, Len(pats[first]) + 1, Len(s)), pats)

\* The three replacements and the trim of the Clean Input step.
cleanMessageBody(b, c) ==
    trim(replaceAll(replaceAll(replaceAll(b, c.triggers), <<AtTranscribe>>),
                    <<AtT>>))

TranscribeThisAudio ==
    <<"T", "r", "a", "n", "s", "c", "r", "i", "b", "e", " ", "t", "h", "i",
      "s", " ", "a", "u", "d", "i", "o">>

cleanInputNoDefault(b, c) == cleanMessageBody(b, c)

\* The cleaned body the planner is called with.
cleanInput(b, c) ==
    IF isExplicitTranscription(b) /\ Len(cleanMessageBody(b, c)) = 0
    THEN TranscribeThisAudio
    ELSE cleanMessageBody(b, c)

\* One fragment typed inside another, at every inner position.
Spliced ==
    UNION {{SubSeq(a, 1, i) \o b \o SubSeq(a, i + 1, Len(a)) :
                i \in 1..(Len(a) - 1)} : a \in Fragments, b \in Fragments}

CleanBodies == Bodies \cup Spliced

InitClean ==
    /\ cfg \in Configs(TriggerLists, {DefaultWindowHours})
    /\ requests = [s \in Ids |-> <<>>]
    /\ now = 0
    /\ admitted = [s \in Ids |-> <<>>]
    /\ last = NoCall
    /\ TasksIdle
    /\ body \in CleanBodies
    /\ verdict = NoVerdict
    /\ RunsIdle

\* Input preparation runs on the bodies the classifier lets proceed.
CleanInput ==
    /\ verdict.done
    /\ verdict.outcome = "Proceed"
    /\ ~ cleanBody.done
    /\ cleanBody' = [done |-> TRUE, text |-> cleanInput(body, cfg)]
    /\ UNCHANGED <<cfg, now, rlVars, taskVars, clsVars, planVars, gatherVars,
                   audioVars, execution, plannerContext>>

NextClean == Classify \/ CleanInput

SpecClean == InitClean /\ [][NextClean]_vars

\* ---------------------------------------------------------------- planner
\* A JSON value: its type, its text when it is a scalar, its elements when
\* it is an array.  Undefined is what reading a missing property gives.
JV(type, str, arr) == [type |-> type, str |-> str, arr |-> arr]
Undefined == JV("undefined", "", <<>>)
JNull == JV("null", "null", <<>>)
JTrue == JV("boolean", "true", <<>>)
JFalse == JV("boolean", "false", <<>>)
JStr(str) == JV("string", str, <<>>)
JArr(arr) == JV("array", "", arr)

\* A time range of the plan; <<>> is null, <<t>> a date literal.
RecentRange == [start |-> <<>>, end |-> <<>>]
PlannerRanges == {RecentRange, [start |-> <<0>>, end |-> <<1>>]}

RECURSIVE RangeLists(_)
RangeLists(k) ==
    IF k = 0 THEN {<<>>}
    ELSE LET shorter == RangeLists(k - 1) IN
         shorter \cup {l \o <<r>> : l \in shorter, r \in PlannerRanges}

\* The response is a sequence of tokens: the two code fences (three
\* backquotes, with and without json behind them), white space,
\* the braces, the literal null, a word of prose, one member of an object.
Token(tok, key, val) == [tok |-> tok, key |-> key, val |-> val]
FenceJson == Token("fence json", "", Undefined)
Fence == Token("fence", "", Undefined)
Blank == Token(" ", "", Undefined)
LBrace == Token("{", "", Undefined)
RBrace == Token("}", "", Undefined)
NullLiteral == Token("null", "", Undefined)
Prose == Token("Sorry", "", Undefined)
Member(key, val) == Token("member", key, val)

\* A member of every value of vals, or no member at all.
Opt(key, vals) == {<<>>} \cup {<<Member(key, v)>> : v \in vals}

FlagValues == {JTrue, JFalse}

ObjectTexts ==
    {<<LBrace>> \o tm \o sr \o ab \o ni \o na \o hr \o tr \o rs \o <<RBrace>> :
        tm \in Opt("target_model",
                   {JStr("fast"), JStr("reasoning"), JStr("turbo"), JStr("")}),
        sr \in Opt("is_self_reflection", FlagValues),
        ab \in Opt("is_abuse", {JTrue}),
        ni \in Opt("needs_image", FlagValues \cup {JNull}),
        na \in Opt("needs_audio", {JTrue, JStr("yes")}),
        hr \in Opt("has_reply", {JTrue}),
        tr \in Opt("time_ranges",
                   {JArr(l) : l \in RangeLists(MaxRanges)} \cup {JStr("today")}),
        rs \in Opt("reasoning", {JStr("because")})}

\* Texts JSON.parse rejects, and the literal null it accepts.
OtherTexts ==
    {<<>>, <<Prose>>, <<NullLiteral>>, <<Prose, LBrace, RBrace>>,
     <<LBrace, Member("target_model", JStr("reasoning"))>>,
     <<FenceJson, Prose, Fence>>, <<FenceJson, NullLiteral, Fence>>}

Responses ==
    ObjectTexts \cup OtherTexts
    \cup {<<FenceJson, Blank>> \o o \o <<Blank, Fence>> : o \in ObjectTexts}

\* The two replacements that drop the code fences, and the trim.
cleanJson(raw) ==
    LET bare == SelectSeq(raw, LAMBDA k : k.tok \notin {"fence json", "fence"})
        inked == {i \in 1..Len(bare) : bare[i].tok # " "}
    IN  IF inked = {} THEN <<>>
        ELSE SubSeq(bare, CHOOSE i \in inked : \A j \in inked : i <= j,
                          CHOOSE i \in inked : \A j \in inked : i >= j)

\* JSON.parse: an object between its braces, or the literal null; anything
\* else is a SyntaxError.
JSONparse(text) ==
    LET n == Len(text) IN
    IF /\ n >= 2
       /\ text[1].tok = "{"
       /\ text[n].tok = "}"
       /\ \A i \in 2..(n - 1) : text[i].tok \in {"member", " "}
    THEN [ok |-> TRUE, type |-> "object",
          members |-> SelectSeq(SubSeq(text, 2, n - 1),
                                LAMBDA k : k.tok = "member")]
    ELSE IF n = 1 /\ text[1].tok = "null"
    THEN [ok |-> TRUE, type |-> "null", members |-> <<>>]
    ELSE [ok |-> FALSE, type |-> "SyntaxError", members |-> <<>>]

\* plan.key of a parsed object: the last member of that key, or undefined.
get(obj, key) ==
    LET at == {i \in 1..Len(obj.members) : obj.members[i].key = key} IN
    IF at = {} THEN Undefined
    ELSE obj.members[CHOOSE i \in at : \A j \in at : i >= j].val

\* JavaScript truthiness of a JSON value.
truthy(v) ==
    /\ v.type \notin {"undefined", "null"}
    /\ v # JFalse
    /\ v # JStr("")

\* plan.key || fallback, for the two text fields.
orDefault(v, fallback) == IF truthy(v) THEN v.str ELSE fallback

arrayOrRecent(v) == IF v.type = "array" THEN v.arr ELSE <<RecentRange>>

\* Array.isArray(plan.time_ranges) ? plan.time_ranges : []
arrayOrEmpty(v) == IF v.type = "array" THEN v.arr ELSE <<>>

\* The object the try block returns.
validatedPlan(obj) ==
    [done |-> TRUE,
     raised |-> FALSE,
     target_model |-> orDefault(get(obj, "target_model"), "fast"),
     is_self_reflection |-> truthy(get(obj, "is_self_reflection")),
     is_abuse |-> truthy(get(obj, "is_abuse")),
     needs_image |-> truthy(get(obj, "needs_image")),
     needs_audio |-> truthy(get(obj, "needs_audio")),
     has_reply |-> truthy(get(obj, "has_reply")),
     time_ranges |-> arrayOrEmpty(get(obj, "time_ranges")),
     reasoning |-> orDefault(get(obj, "reasoning"), "No reasoning provided")]

fallbackPlanNoHistory ==
    [done |-> TRUE,
     raised |-> FALSE,
     target_model |-> "fast",
     is_self_reflection |-> FALSE,
     is_abuse |-> FALSE,
     needs_image |-> FALSE,
     needs_audio |-> FALSE,
     has_reply |-> FALSE,
     time_ranges |-> <<>>,
     reasoning |-> "Fallback due to parse error"]

\* The object the catch block returns.
fallbackPlan ==
    [done |-> TRUE,
     raised |-> FALSE,
     target_model |-> "fast",
     is_self_reflection |-> FALSE,
     is_abuse |-> FALSE,
     needs_image |-> FALSE,
     needs_audio |-> FALSE,
     has_reply |-> FALSE,
     time_ranges |-> <<RecentRange>>,
     reasoning |-> "Fallback due to parse error"]

\* What plan() returns on a response: JSON.parse throws on text that is no
\* JSON, reading a property of null throws as well, and the catch block
\* takes both.
planOf(raw) ==
    LET parsed == JSONparse(cleanJson(raw)) IN
    IF parsed.ok /\ parsed.type = "object"
    THEN validatedPlan(parsed)
    ELSE fallbackPlan

InitPlan ==
    /\ cfg \in Configs({DefaultTriggers}, {DefaultWindowHours})
    /\ requests = [s \in Ids |-> <<>>]
    /\ now = 0
    /\ admitted = [s \in Ids |-> <<>>]
    /\ last = NoCall
    /\ TasksIdle
    /\ body = <<>>
    /\ verdict = NoVerdict
    /\ cleanBody = NoClean
    /\ rawContent \in Responses
    /\ plan = NoPlan
    /\ turn = NoTurn
    /\ gpc = "idle"
    /\ contextMessages = <<>>
    /\ gcalls = <<>>
    /\ ServicesIdle

\* The model has answered with rawContent; plan() runs to its return.
PlannerAgentPlan ==
    /\ ~ plan.done
    /\ plan' = planOf(rawContent)
    /\ UNCHANGED <<cfg, now, rlVars, taskVars, clsVars, cleanBody, rawContent,
                   gatherVars, audioVars, execution, plannerContext>>

NextPlan == PlannerAgentPlan

SpecPlan == InitPlan /\ [][NextPlan]_vars

\* ------------------------------------------------------ context gathering
\* Timestamps and dates are counted in ticks from the epoch; a day has
\* DayTicks of them and FiveSeconds is the age below which the last-active-
\* day scan passes over a message.
FiveSeconds == 1
DayTicks == 2

Date(valid, at) == [valid |-> valid, at |-> at]
InvalidDate == Date(FALSE, 0)

\* A date literal of the plan: ISO text of a tick, or text that is no date.
Iso(at) == [text |-> "iso", at |-> at]
Garbage == [text |-> "garbage", at |-> 0]

\* new Date(literal)
newDate(lit) == IF lit.text = "iso" THEN Date(TRUE, lit.at) ELSE InvalidDate

\* d.setHours(0, 0, 0, 0)
startOfDay(d) == Date(d.valid, d.at - (d.at % DayTicks))

notBeforeStrict(a, b) == a.valid /\ b.valid /\ a.at > b.at

\* a >= b on dates: false as soon as one of them is invalid.
notBefore(a, b) == a.valid /\ b.valid /\ a.at >= b.at

\* A message of the chat.  download is what downloadMedia and the
\* transcription do for it: "media" (both succeed), "unreadable" (the media
\* arrives, the transcription throws), "null" (no media), "throws", and
\* "none" for a message without media.
ChatMessage(id, timestamp, fromMe, kind, hasQuotedMsg) ==
    [id |-> id, timestamp |-> timestamp, fromMe |-> fromMe,
     type |-> kind.type, hasMedia |-> kind.hasMedia,
     download |-> kind.download, hasQuotedMsg |-> hasQuotedMsg]

MediaKind(type, hasMedia, download) ==
    [type |-> type, hasMedia |-> hasMedia, download |-> download]

PlainChat == MediaKind("chat", FALSE, "none")

MediaKinds ==
    {PlainChat}
    \cup {MediaKind("ptt", TRUE, d) :
            d \in {"media", "unreadable", "null", "throws"}}
    \cup {MediaKind(t, TRUE, d) :
            t \in {"image", "document"}, d \in {"media", "null", "throws"}}

CurId == "cur"
QuotedId == "q"

\* The chat as the transport holds it, oldest first: an earlier answer of
\* the owner account, the message a reply quotes, an image of another
\* sender, and the inbound message itself.
Timeline(cur, quoted, imageDownload) ==
    <<ChatMessage("m1", 1, TRUE, PlainChat, FALSE),
      quoted,
      ChatMessage("m3", 3, FALSE, MediaKind("image", TRUE, imageDownload),
                  FALSE),
      cur>>

\* chat.fetchMessages({ limit }): the latest messages of the chat, with or
\* without the inbound message.
Pages(timeline) ==
    LET n == Len(timeline) IN
    {SubSeq(timeline, i, n) : i \in 1..(n + 1)}
    \cup {SubSeq(timeline, i, n - 1) : i \in 1..(n - 1)}

StartLits == {<<>>, <<Iso(1)>>, <<Iso(3)>>, <<Garbage>>}
EndLits == {<<>>, <<Iso(2)>>, <<Iso(MaxStamp)>>}

TimeRanges ==
    {<<>>} \cup {<<[start |-> st, end |-> en]>> : st \in StartLits, en \in EndLits}

\* The fields of the plan that gatherContext reads.
GatherPlans ==
    [context_needed : {TRUE}, time_range : TimeRanges,
     needs_audio : BOOLEAN, needs_image : BOOLEAN]
    \cup [context_needed : {FALSE}, time_range : {<<>>, <<[start |-> <<Iso(1)>>, end |-> <<>>]>>},
          needs_audio : BOOLEAN, needs_image : BOOLEAN]

Listen == <<"l", "i", "s", "t", "e", "n">>

\* Cleaned body and explicit-transcription flag of the turn.
Inputs ==
    {[cleanBody |-> Hi, isExplicitTranscription |-> FALSE],
     [cleanBody |-> Listen, isExplicitTranscription |-> FALSE],
     [cleanBody |-> TranscribeThisAudio, isExplicitTranscription |-> TRUE]}

\* A turn at the call of gatherContext.  The media, if any, sits on the
\* quoted message of a reply and on the inbound message otherwise.
Turns ==
    {[started |-> TRUE,
      message |-> ChatMessage(CurId, MaxStamp, fromMe,
                              IF reply THEN PlainChat ELSE kind, reply),
      quoted |-> ChatMessage(QuotedId, 2, FALSE,
                             IF reply THEN kind ELSE PlainChat, FALSE),
      plan |-> p,
      cleanBody |-> in.cleanBody,
      isExplicitTranscription |-> in.isExplicitTranscription,
      imageDownload |-> imageDownload,
      nowAt |-> MaxStamp,
      recentMessages |-> <<>>,
      finalUserContent |-> "text"] :
        fromMe \in BOOLEAN, reply \in BOOLEAN, kind \in MediaKinds,
        p \in GatherPlans, in \in Inputs,
        imageDownload \in {"media", "throws"}}

\* One unit of the context: a HumanMessage ("human") or an AIMessage ("ai")
\* made from the message of id of; parts is "text" or "multimodal", note what
\* was added to the body, at the timestamp of the source message.
Unit(kind, origin, of, parts, note, at) ==
    [kind |-> kind, origin |-> origin, of |-> of, parts |-> parts,
     note |-> note, at |-> at]

Call(name, of) == [name |-> name, of |-> of]

\* The message whose media handleCurrentMessageMedia looks at.
targetMsg(tn) == IF tn.message.hasQuotedMsg THEN tn.quoted ELSE tn.message

\* plan.needs_audio || isExplicitTranscription ||
\* cleanBody.includes("transcribe") || cleanBody.includes("listen")
audioWanted(tn) ==
    \/ tn.plan.needs_audio
    \/ tn.isExplicitTranscription
    \/ includes(tn.cleanBody, SubSeq(AtTranscribe, 2, Len(AtTranscribe)))
    \/ includes(tn.cleanBody, Listen)

\* Whether the branch taken for the target downloads its media.
downloadsTarget(tn) ==
    LET tg == targetMsg(tn) IN
    /\ tg.hasMedia
    /\ \/ tg.type = "ptt" /\ audioWanted(tn)
       \/ tg.type = "document"
       \/ tg.type = "image" /\ tn.plan.needs_image

\* handleCurrentMessageMedia from its call to its return or its throw.
mediaCalls(tn) ==
    LET tg == targetMsg(tn) IN
    (IF tn.message.hasQuotedMsg
     THEN <<Call("getQuotedMessage", tn.message.id)>> ELSE <<>>)
    \o (IF downloadsTarget(tn)
        THEN <<Call("downloadMedia", tg.id)>> ELSE <<>>)
    \o (IF downloadsTarget(tn) /\ tg.type = "ptt"
           /\ tg.download \in {"media", "unreadable"}
        THEN <<Call("transcribe", tg.id)>> ELSE <<>>)

mediaThrows(tn) ==
    LET tg == targetMsg(tn) IN
    /\ downloadsTarget(tn)
    /\ \/ tg.download = "throws"
       \/ tg.type = "ptt" /\ tg.download = "unreadable"

mediaUnits(tn) ==
    LET tg == targetMsg(tn) IN
    IF downloadsTarget(tn) /\ tg.type = "ptt" /\ tg.download = "media"
    THEN <<Unit("transcription", "human", tg.id, "text", "audio",
                tg.timestamp)>>
    ELSE <<>>

mediaContent(tn) ==
    LET tg == targetMsg(tn) IN
    IF downloadsTarget(tn) /\ tg.type \in {"document", "image"}
       /\ tg.download = "media"
    THEN "multimodal"
    ELSE tn.finalUserContent

\* The time window of handleHistoricalContext: the range of the plan when
\* its start is given, the last active day otherwise.
historyWindow(tn, recent) ==
    LET range == tn.plan.time_range
        older == {i \in 1..Len(recent) :
                    /\ recent[i].timestamp # 0
                    /\ recent[i].timestamp < tn.nowAt - FiveSeconds}
        nowDate == Date(TRUE, tn.nowAt)
    IN  IF range # <<>> /\ range[1].start # <<>>
        THEN [startTime |-> newDate(range[1].start[1]),
              endTime |-> IF range[1].end # <<>>
                          THEN newDate(range[1].end[1]) ELSE nowDate]
        ELSE [startTime |->
                IF older # {}
                THEN startOfDay(Date(TRUE,
                        recent[CHOOSE i \in older :
                                   \A j \in older : i >= j].timestamp))
                ELSE startOfDay(nowDate),
              endTime |-> nowDate]

inWindow(m, w) ==
    LET msgDate == Date(TRUE, m.timestamp) IN
    notBefore(msgDate, w.startTime) /\ notBefore(w.endTime, msgDate)

\* processHistoryMessage: the calls it makes and the one unit it pushes.
historyCallsOf(m) ==
    IF m.hasMedia /\ m.type = "ptt"
    THEN <<Call("downloadMedia", m.id)>>
         \o (IF m.download \in {"media", "unreadable"}
             THEN <<Call("transcribe", m.id)>> ELSE <<>>)
    ELSE IF m.hasMedia /\ m.type = "image"
    THEN <<Call("downloadMedia", m.id)>>
    ELSE <<>>

historyUnitOfHuman(m) ==
    Unit("history", "human", m.id, "text", "", m.timestamp)

historyUnitOf(m) ==
    LET origin == IF m.fromMe THEN "ai" ELSE "human" IN
    IF m.hasMedia /\ m.type = "ptt"
    THEN Unit("history", origin, m.id, "text",
              CASE m.download = "media" -> "audio"
                [] m.download = "null" -> ""
                [] OTHER -> "audio failed",
              m.timestamp)
    ELSE IF m.hasMedia /\ m.type = "image"
    THEN IF m.download = "media"
         THEN Unit("history", origin, m.id, "multimodal", "", m.timestamp)
         ELSE Unit("history", origin, m.id, "text",
                   IF m.download = "throws"
                   THEN "image failed, image omitted" ELSE "image omitted",
                   m.timestamp)
    ELSE Unit("history", origin, m.id, "text", "", m.timestamp)

RECURSIVE historyUnits(_, _)
historyUnits(recent, w) ==
    IF recent = <<>> THEN <<>>
    ELSE (IF inWindow(Head(recent), w)
          THEN <<historyUnitOf(Head(recent))>> ELSE <<>>)
         \o historyUnits(Tail(recent), w)

RECURSIVE historyCalls(_, _)
historyCalls(recent, w) ==
    IF recent = <<>> THEN <<>>
    ELSE (IF inWindow(Head(recent), w)
          THEN historyCallsOf(Head(recent)) ELSE <<>>)
         \o historyCalls(Tail(recent), w)

wantsHistoryAlways(p) == TRUE

\* if (plan.context_needed)
wantsHistory(p) == p.context_needed

pushFinalFirst(context, unit) == <<unit>> \o context

pushFinalWhenText(context, unit) ==
    IF unit.parts = "multimodal" THEN context ELSE Append(context, unit)

\* contextMessages.push(new HumanMessage({ content: finalUserContent }))
pushFinal(context, unit) == Append(context, unit)

InitGather ==
    /\ cfg \in Configs({DefaultTriggers}, {DefaultWindowHours})
    /\ requests = [s \in Ids |-> <<>>]
    /\ now = 0
    /\ admitted = [s \in Ids |-> <<>>]
    /\ last = NoCall
    /\ TasksIdle
    /\ body = <<>>
    /\ verdict = NoVerdict
    /\ cleanBody = NoClean
    /\ rawContent = <<>>
    /\ plan = NoPlan
    /\ turn \in Turns
    /\ gpc = "start"
    /\ contextMessages = <<>>
    /\ gcalls = <<>>
    /\ ServicesIdle

gatherFrame ==
    <<cfg, now, rlVars, taskVars, clsVars, cleanBody, planVars, audioVars,
      execution,
      plannerContext>>

\* gatherContext up to the return of handleCurrentMessageMedia, or to its
\* throw, which gatherContext hands on to the handler.
HandleCurrentMessageMedia ==
    /\ gpc = "start"
    /\ gcalls' = gcalls \o mediaCalls(turn)
    /\ IF mediaThrows(turn)
       THEN /\ gpc' = "failed"
            /\ UNCHANGED <<turn, contextMessages>>
       ELSE /\ gpc' = "media"
            /\ contextMessages' = contextMessages \o mediaUnits(turn)
            /\ turn' = [turn EXCEPT !.finalUserContent = mediaContent(turn)]
    /\ UNCHANGED gatherFrame

\* handleHistoricalContext: the fetch returns a page or fails; the messages
\* of the page inside the window are processed in the order of the page.
HandleHistoricalContext ==
    /\ gpc = "media"
    /\ wantsHistory(turn.plan)
    /\ \/ \E recent \in Pages(Timeline(turn.message, turn.quoted,
                                       turn.imageDownload)) :
            LET w == historyWindow(turn, recent) IN
            /\ turn' = [turn EXCEPT !.recentMessages = recent]
            /\ gcalls' = gcalls \o <<Call("fetchMessages", CurId)>>
                                \o historyCalls(recent, w)
            /\ contextMessages' = contextMessages \o historyUnits(recent, w)
            /\ gpc' = "history"
       \/ /\ gcalls' = Append(gcalls, Call("fetchMessages", CurId))
          /\ gpc' = "failed"
          /\ UNCHANGED <<turn, contextMessages>>
    /\ UNCHANGED gatherFrame

\* The final user query block is pushed and gatherContext returns.
PushFinalQuery ==
    /\ \/ gpc = "history"
       \/ gpc = "media" /\ ~ wantsHistory(turn.plan)
    /\ contextMessages' =
          pushFinal(contextMessages,
                    Unit("query", "human", turn.message.id,
                         turn.finalUserContent, "", turn.message.timestamp))
    /\ gpc' = "done"
    /\ UNCHANGED <<turn, gcalls>>
    /\ UNCHANGED gatherFrame

NextGather ==
    HandleCurrentMessageMedia \/ HandleHistoricalContext \/ PushFinalQuery

SpecGather == InitGather /\ [][NextGather]_vars

\* ------------------------------------------------ claims: the rate limiter
\* The admitted timestamps of the sender of the latest call, as they were
\* before that call.
PriorAdmitted ==
    LET a == admitted[last.userId] IN
    IF last.allowed THEN SubSeq(a, 1, Len(a) - 1) ELSE a

CountWhere(seq, P(_)) == Len(SelectSeq(seq, P))

\* C1: from an empty window the first N calls inside one window are allowed
\* (fewer than N admissions in the window so far means allow), the call after
\* N admissions inside the window is denied, and a call made once the clock
\* has passed the window of the earliest of the last N admissions is allowed.
C1_WindowAdmission ==
    last.userId # "none" =>
        LET prior == PriorAdmitted
            inside == CountWhere(prior, LAMBDA ts : last.at - ts < windowMs)
            notPast == CountWhere(prior, LAMBDA ts : last.at - ts <= windowMs)
        IN  /\ notPast < limit => last.allowed
            /\ inside >= limit => ~ last.allowed
            /\ (/\ Len(prior) >= limit
                /\ last.at - prior[Len(prior) - limit + 1] > windowMs)
               => last.allowed

C1_Witness ==
    /\ last.userId # "none"
    /\ last.allowed
    /\ LET a == admitted[last.userId] IN
        /\ Len(a) = limit + 1
        /\ a[limit] - a[1] < windowMs
        /\ a[limit + 1] - a[1] > windowMs
        /\ a[limit + 1] = last.at

\* C2: for every sender at most limit recorded timestamps are younger than
\* the window, at most limit admissions fall inside the window ending now,
\* and the stored sequence never holds more than limit entries.
C2_WindowBound ==
    \A s \in Ids :
        /\ Len(requests[s]) <= limit
        /\ CountWhere(requests[s], LAMBDA ts : now - ts < windowMs) <= limit
        /\ CountWhere(admitted[s], LAMBDA ts : now - ts < windowMs) <= limit

C2_Witness ==
    /\ last.userId # "none"
    /\ ~ last.allowed
    /\ last.at = now
    /\ CountWhere(requests[last.userId], LAMBDA ts : now - ts < windowMs) = limit

\* C3: a denied call changes no sender's stored sequence; an allowed call
\* ends the caller's sequence with the current time and changes no other
\* sender's sequence.
C3_DenyKeepsState ==
    [][last'.flip # last.flip =>
        IF last'.allowed
        THEN /\ Len(requests'[last'.userId]) >= 1
             /\ requests'[last'.userId][Len(requests'[last'.userId])] = now
             /\ \A s \in Ids \ {last'.userId} : requests'[s] = requests[s]
        ELSE requests' = requests]_vars

C3_Witness ==
    /\ last.userId # "none"
    /\ ~ last.allowed
    /\ Len(requests[last.userId]) = limit
    /\ \E s \in Senders \ {last.userId} : requests[s] # <<>>

\* ------------------------------------------------------ claims: the handler
Suspended == {"getChat", "plannerContext", "plan", "gatherContext", "execute"}

\* Calls that belong to rate limiting, planning, context and generation.
PipelineCalls ==
    {"canRequest", "getChat", "getPlannerContext", "plan", "gatherContext",
     "execute"}

\* C4: with handler tasks interleaved at their awaits, two of them for one
\* sender included, no window of any sender ever holds more admissions than
\* the limit, and every admission still inside the window is in the stored
\* sequence.
C4_AtomicAdmission ==
    \A s \in Ids :
        /\ \A e \in 0..now :
            CountWhere(admitted[s],
                       LAMBDA ts : ts <= e /\ e - ts < windowMs) <= limit
        /\ validTimestamps(requests[s], now) = validTimestamps(admitted[s], now)

C4_Witness ==
    \E t1 \in Tasks, t2 \in Tasks :
        /\ t1 # t2
        /\ msg[t1].from = msg[t2].from
        /\ ~ msg[t1].fromMe /\ ~ msg[t2].fromMe
        /\ "canRequest" \in calls[t1] /\ "canRequest" \in calls[t2]
        /\ pc[t1] \in Suspended
        /\ pc[t2] = "rateReply"

\* C5: a message from the owner account is never refused by rate limiting
\* and its task never calls the rate limiter, so no window is read or
\* changed by it, however many requests the owner has made.
C5_OwnerExempt ==
    \A t \in Tasks :
        msg[t].fromMe =>
            /\ "canRequest" \notin calls[t]
            /\ \A i \in 1..Len(replies[t]) : replies[t][i].kind # "rate"
            /\ (/\ pc[t] \in {"done", "unhandled"}
                /\ ~ isLoopMessage(msg[t].body, cfg)
                /\ ~ isHelpCommand(msg[t].body)
                /\ isTriggeredMessage(msg[t].body, cfg))
               => "getChat" \in calls[t]

C5_Witness ==
    /\ limit = 1
    /\ \A t \in Tasks :
        /\ msg[t].fromMe
        /\ pc[t] \in Suspended

\* C6: a message whose body holds the loop marker anywhere is ignored,
\* whoever sent it: its task ends with no reply, no trigger match and no
\* rate-limit, planner, context or generation call.
C6_LoopIgnored ==
    \A t \in Tasks :
        (pc[t] # "idle" /\ includes(msg[t].body, cfg.ignoreLoopEmoji)) =>
            /\ pc[t] = "done"
            /\ calls[t] = {}
            /\ replies[t] = <<>>

C6_Witness ==
    \E t \in Tasks :
        /\ pc[t] = "done"
        /\ msg[t].fromMe
        /\ msg[t].body = TrigG \o Moai

\* C7: every reply handed to the transport holds the configured loop marker.
C7_EveryReplyMarked ==
    \A t \in Tasks :
        \A i \in 1..Len(replies[t]) :
            includes(replies[t][i].text, cfg.ignoreLoopEmoji)

\* The trigger test as the specification words it: either side lower-cased.
MatchesTrigger(b, c) ==
    \/ \E i \in 1..Len(c.triggers) :
          includes(toLowerCase(b), toLowerCase(c.triggers[i]))
    \/ startsWith(b, AtTranscribe)
    \/ startsWith(b, AtT)

IsHelpPhrase(b) == toLowerCase(b) \in {GHelp, GolemHelp}

\* C8: a body is treated as triggered exactly when it holds a configured
\* trigger as a substring, compared without regard to case, or begins with
\* one of the two transcription prefixes.
C8_TriggeredIff ==
    verdict.done => (verdict.triggered <=> MatchesTrigger(body, cfg))

\* C9: a message with no marker, no help phrase and no trigger or prefix is
\* ignored silently: no reply, no rate-limiter call, no planner, context or
\* generation call.
C9_UntriggeredSilent ==
    \A t \in Tasks :
        (/\ pc[t] # "idle"
         /\ ~ includes(msg[t].body, cfg.ignoreLoopEmoji)
         /\ ~ IsHelpPhrase(msg[t].body)
         /\ ~ MatchesTrigger(msg[t].body, cfg)) =>
            /\ pc[t] \in {"triggers", "done"}
            /\ replies[t] = <<>>
            /\ calls[t] \cap PipelineCalls = {}

C9_Witness ==
    \E t \in Tasks :
        /\ pc[t] = "done"
        /\ msg[t].body = Hi
        /\ ~ msg[t].fromMe
        /\ requests[msg[t].from] # <<>>

C11_ExplicitNeverEmpty ==
    (cleanBody.done /\ isExplicitTranscription(body)) =>
        /\ cleanBody.text # <<>>
        /\ body \in {AtT, AtTranscribe} => cleanBody.text = TranscribeThisAudio
        /\ cleanMessageBody(body, cfg) = <<>>
              => cleanBody.text = TranscribeThisAudio

C11_Witness ==
    /\ cleanBody.done
    /\ body = AtT
    /\ cleanBody.text = TranscribeThisAudio

\* The lower-cased text holds the lower-cased pattern nowhere.
Free(text, pattern) == ~ includes(toLowerCase(text), toLowerCase(pattern))

\* C12: the cleaned body holds, letter case ignored, no loop marker, no
\* configured trigger and neither transcription prefix, and it neither
\* starts nor ends with white space.
C12_CleanedFree ==
    cleanBody.done =>
        /\ Free(cleanBody.text, cfg.ignoreLoopEmoji)
        /\ \A i \in 1..Len(cfg.triggers) : Free(cleanBody.text, cfg.triggers[i])
        /\ Free(cleanBody.text, AtTranscribe)
        /\ Free(cleanBody.text, AtT)
        /\ cleanBody.text # <<>> =>
              /\ Head(cleanBody.text) # " "
              /\ cleanBody.text[Len(cleanBody.text)] # " "

\* ------------------------------------------------------ claims: the planner
Parsed == JSONparse(cleanJson(rawContent))

NonJson == ~ Parsed.ok

FlagsAllFalse ==
    /\ ~ plan.is_self_reflection
    /\ ~ plan.is_abuse
    /\ ~ plan.needs_image
    /\ ~ plan.needs_audio

FlagKeys == {"is_self_reflection", "is_abuse", "needs_image", "needs_audio"}

Missing(key) == \A i \in 1..Len(Parsed.members) : Parsed.members[i].key # key

\* The value given for key, when the object has exactly one member of it.
Given(key) ==
    (CHOOSE m \in {Parsed.members[i] : i \in 1..Len(Parsed.members)} :
        m.key = key).val

PlanFlag(key) ==
    CASE key = "is_self_reflection" -> plan.is_self_reflection
      [] key = "is_abuse" -> plan.is_abuse
      [] key = "needs_image" -> plan.needs_image
      [] key = "needs_audio" -> plan.needs_audio

C15_TierFastOrReasoning ==
    plan.done => plan.target_model \in {"fast", "reasoning"}

\* ---------------------------------------------- claims: context gathering
Assembled == gpc = "done"

Positions == 1..Len(contextMessages)

UnitsOfKind(kind) == {i \in Positions : contextMessages[i].kind = kind}

\* C16: in an assembled context no message is represented twice: no two
\* historical units are made from the same message, and the inbound or the
\* quoted message, which has its own unit, is not represented once more by
\* a historical unit when the history fetch returns it as well.
C16_OneUnitPerMessage ==
    Assembled =>
        \A i, j \in Positions :
            (i # j /\ contextMessages[i].kind = "history")
                => contextMessages[i].of # contextMessages[j].of

\* C17: every unit of the historical window comes before the emphasis unit of
\* the quoted message when there is one, and that unit before the current
\* query; no historical unit follows the emphasis unit or the current query.
C17_HistoryThenEmphasisThenQuery ==
    \A i, j \in Positions :
        i < j =>
            /\ ~ (/\ contextMessages[i].kind \in {"emphasis", "query"}
                  /\ contextMessages[j].kind = "history")
            /\ ~ (/\ contextMessages[i].kind = "query"
                  /\ contextMessages[j].kind = "emphasis")

C17_Witness ==
    /\ Assembled
    /\ turn.message.hasQuotedMsg
    /\ Len(contextMessages) >= 4
    /\ contextMessages[1].kind = "transcription"
    /\ \E i \in UnitsOfKind("history") : contextMessages[i].of = QuotedId
    /\ contextMessages[Len(contextMessages)].kind = "query"

\* C18: every assembled context is non-empty, its last unit is the current
\* query (text, or multimodal when an image or a document was attached), and
\* it holds exactly one current-query unit, whatever the plan and the kind of
\* the message.
C18_OneTrailingQuery ==
    Assembled =>
        /\ Len(contextMessages) >= 1
        /\ LET final == contextMessages[Len(contextMessages)] IN
            /\ final.kind = "query"
            /\ final.of = turn.message.id
            /\ final.parts \in {"text", "multimodal"}
            /\ final.parts = "multimodal"
                  => targetMsg(turn).type \in {"image", "document"}
        /\ Cardinality(UnitsOfKind("query")) = 1

C18_Witness ==
    /\ Assembled
    /\ Len(contextMessages) >= 3
    /\ contextMessages[Len(contextMessages)].parts = "multimodal"
    /\ targetMsg(turn).type = "document"

\* The units that carry the sender and the body of the quoted message.
QuotedCarriers ==
    {i \in Positions : /\ contextMessages[i].of = QuotedId
                       /\ contextMessages[i].kind \in {"emphasis", "history"}}

\* C19: when the inbound message is a reply, the assembled context holds
\* exactly one unit carrying the quoted sender and the quoted body, after
\* every historical unit and directly before the current query; when it is
\* no reply, the context holds no emphasis unit.
C19_ReplyEmphasis ==
    Assembled =>
        IF turn.message.hasQuotedMsg
        THEN /\ Cardinality(QuotedCarriers) = 1
             /\ \A i \in QuotedCarriers :
                    /\ i = Len(contextMessages) - 1
                    /\ \A j \in UnitsOfKind("history") : j <= i
        ELSE UnitsOfKind("emphasis") = {}

Transcripts == {"", "hello", "bye"}

\* loadCache: the cache starts empty or as the cache file left it.
LoadedCaches ==
    {[id \in MediaIds |-> <<>>],
     [id \in MediaIds |-> IF id = "v2" THEN <<"bye">> ELSE <<>>]}

\* if (this.cache[mediaId]): the entry exists and is a non-empty string.
cacheHit(id) == cache[id] # <<>> /\ cache[id][1] # ""

audioFrame ==
    <<cfg, now, rlVars, taskVars, clsVars, cleanBody, planVars, gatherVars,
      execution,
      plannerContext>>

InitAudio ==
    /\ cfg \in Configs({DefaultTriggers}, {DefaultWindowHours})
    /\ requests = [s \in Ids |-> <<>>]
    /\ now = 0
    /\ admitted = [s \in Ids |-> <<>>]
    /\ last = NoCall
    /\ TasksIdle
    /\ body = <<>>
    /\ verdict = NoVerdict
    /\ cleanBody = NoClean
    /\ rawContent = <<>>
    /\ plan = NoPlan
    /\ turn = NoTurn
    /\ gpc = "idle"
    /\ contextMessages = <<>>
    /\ gcalls = <<>>
    /\ cache \in LoadedCaches
    /\ atask = [t \in ATasks |-> NoTranscribe]
    /\ heard = [id \in MediaIds |-> {}]
    /\ transcribes = 0
    /\ execution = NoExecution
    /\ plannerContext = NoPlannerContext

\* A transcribe call for id has ended with the failure of the capability.
failedFor(id) ==
    \E u \in ATasks :
        /\ atask[u].pc = "thrown"
        /\ atask[u].invoked
        /\ atask[u].mediaId = id

\* transcribe(mediaId, audioBuffer) up to its first await: a cache hit
\* returns the cached text at once, a miss goes on to write the temp file.
Transcribe(t, id) ==
    /\ atask[t].pc \in {"idle", "returned", "thrown"}
    /\ transcribes < MaxTranscribes
    /\ transcribes' = transcribes + 1
    /\ IF cacheHit(id)
       THEN /\ atask' = [atask EXCEPT ![t] =
                            [pc |-> "returned", mediaId |-> id,
                             invoked |-> FALSE, text |-> cache[id][1],
                             before |-> heard[id],
                             afterFailure |-> failedFor(id)]]
            /\ heard' = [heard EXCEPT ![id] = @ \cup {cache[id][1]}]
       ELSE /\ atask' = [atask EXCEPT ![t] =
                            [pc |-> "writeFile", mediaId |-> id,
                             invoked |-> FALSE, text |-> "",
                             before |-> heard[id],
                             afterFailure |-> failedFor(id)]]
            /\ UNCHANGED heard
    /\ UNCHANGED <<cache, audioFrame>>

\* ensureDir and writeFile settle: the capability is invoked with the temp
\* file, or the file system fails and the error is rethrown.
TempFileWritten(t) ==
    /\ atask[t].pc = "writeFile"
    /\ \/ atask' = [atask EXCEPT ![t].pc = "create", ![t].invoked = TRUE]
       \/ atask' = [atask EXCEPT ![t].pc = "thrown"]
    /\ UNCHANGED <<cache, heard, transcribes, audioFrame>>

TranscriptionCreatedResetsCache(t) ==
    /\ atask[t].pc = "create"
    /\ \/ \E text \in Transcripts :
            /\ cache' = [id \in MediaIds |->
                            IF id = atask[t].mediaId THEN <<text>> ELSE <<>>]
            /\ atask' = [atask EXCEPT ![t].pc = "returned", ![t].text = text]
            /\ heard' = [heard EXCEPT ![atask[t].mediaId] = @ \cup {text}]
       \/ /\ atask' = [atask EXCEPT ![t].pc = "thrown"]
          /\ UNCHANGED <<cache, heard>>
    /\ UNCHANGED <<transcribes, audioFrame>>

TranscriptionCreatedCachesFailure(t) ==
    /\ atask[t].pc = "create"
    /\ \/ \E text \in Transcripts :
            /\ cache' = [cache EXCEPT ![atask[t].mediaId] = <<text>>]
            /\ atask' = [atask EXCEPT ![t].pc = "returned", ![t].text = text]
            /\ heard' = [heard EXCEPT ![atask[t].mediaId] = @ \cup {text}]
       \/ /\ atask' = [atask EXCEPT ![t].pc = "thrown"]
          /\ cache' = [cache EXCEPT ![atask[t].mediaId] = <<"bye">>]
          /\ UNCHANGED heard
    /\ UNCHANGED <<transcribes, audioFrame>>

\* openai.audio.transcriptions.create settles: its text is stored in the
\* cache and returned, or its error is rethrown and the cache is left alone.
TranscriptionCreated(t) ==
    /\ atask[t].pc = "create"
    /\ \/ \E text \in Transcripts :
            /\ cache' = [cache EXCEPT ![atask[t].mediaId] = <<text>>]
            /\ atask' = [atask EXCEPT ![t].pc = "returned", ![t].text = text]
            /\ heard' = [heard EXCEPT ![atask[t].mediaId] = @ \cup {text}]
       \/ /\ atask' = [atask EXCEPT ![t].pc = "thrown"]
          /\ UNCHANGED <<cache, heard>>
    /\ UNCHANGED <<transcribes, audioFrame>>

NextAudio ==
    \/ \E t \in ATasks, id \in MediaIds : Transcribe(t, id)
    \/ \E t \in ATasks : TempFileWritten(t)
    \/ \E t \in ATasks : TranscriptionCreated(t)

SpecAudio == InitAudio /\ [][NextAudio]_vars

\* ------------------------------------------------------------------
\* ExecutorAgent: the model is chosen by the plan and invoked once.
\* ------------------------------------------------------------------

\* The plans the planner can hand over.
ExecutorPlans == {planOf(raw) : raw \in Responses}

\* The context list execute is called with: the query unit alone.
ExecutorContexts ==
    {<<Unit("query", "human", CurId, <<"text">>, "", MaxStamp)>>}

getModelAlwaysFast(p) == "fast"

\* getModel: the reasoning model for the tier 'reasoning', else the fast one.
getModel(p) == IF p.target_model = "reasoning" THEN "reasoning" ELSE "fast"

\* buildSystemPrompt: the persona and whether the tech stack is appended.
buildSystemPrompt(p) ==
    [persona |-> IF p.is_abuse THEN "abuse" ELSE "standard",
     techStack |-> p.is_self_reflection]

executeFrame ==
    <<cfg, now, rlVars, taskVars, clsVars, cleanBody, planVars, gatherVars,
      audioVars,
      plannerContext>>

InitExecute ==
    /\ cfg \in Configs({DefaultTriggers}, {DefaultWindowHours})
    /\ requests = [s \in Ids |-> <<>>]
    /\ now = 0
    /\ admitted = [s \in Ids |-> <<>>]
    /\ last = NoCall
    /\ TasksIdle
    /\ body = <<>>
    /\ verdict = NoVerdict
    /\ cleanBody = NoClean
    /\ rawContent = <<>>
    /\ plan \in ExecutorPlans
    /\ turn = NoTurn
    /\ gpc = "done"
    /\ contextMessages \in ExecutorContexts
    /\ gcalls = <<>>
    /\ cache = [id \in MediaIds |-> <<>>]
    /\ atask = [t \in ATasks |-> NoTranscribe]
    /\ heard = [id \in MediaIds |-> {}]
    /\ transcribes = 0
    /\ execution = NoExecution
    /\ plannerContext = NoPlannerContext

\* execute up to its await: the model is chosen, the system prompt built
\* and model.invoke called.
Execute ==
    /\ execution.pc = "idle"
    /\ execution' =
           [pc |-> "invoke",
            model |-> getModel(plan),
            invoked |-> Append(execution.invoked, getModel(plan)),
            persona |-> buildSystemPrompt(plan).persona,
            techStack |-> buildSystemPrompt(plan).techStack,
            content |-> <<>>]
    /\ UNCHANGED executeFrame

\* model.invoke settles: execute returns response.content, or the rejection
\* passes through execute to its caller.
ModelInvoked ==
    /\ execution.pc = "invoke"
    /\ \/ \E responseText \in ResponseTexts :
            execution' = [execution EXCEPT !.pc = "returned",
                                           !.content = responseText]
       \/ execution' = [execution EXCEPT !.pc = "thrown"]
    /\ UNCHANGED executeFrame

NextExecute == Execute \/ ModelInvoked

SpecExecute == InitExecute /\ [][NextExecute]_vars

HistoryIds ==
    LET units == SelectSeq(contextMessages, LAMBDA u : u.kind = "history")
    IN  [i \in 1..Len(units) |-> units[i].of]

\* The ids of the fetched messages whose timestamp lies in [from, to], in
\* the order of the fetched page.
FetchedBetween(from, to) ==
    LET hits == SelectSeq(turn.recentMessages,
                          LAMBDA m : from <= m.timestamp /\ m.timestamp <= to)
    IN  [i \in 1..Len(hits) |-> hits[i].id]

HistoryRan == gpc \in {"history", "done"}

RangeOfPlan == turn.plan.time_range[1]

\* Start and end of the requested range are both given and both dates.
RangeResolved ==
    /\ turn.plan.time_range # <<>>
    /\ RangeOfPlan.start # <<>>
    /\ RangeOfPlan.start[1].text = "iso"
    /\ RangeOfPlan.end # <<>>
    /\ RangeOfPlan.end[1].text = "iso"

\* C21: for a requested range whose start and end are resolved, the
\* historical units are made from exactly the fetched messages with
\* start <= timestamp <= end, both bounds included, in the order of the
\* fetch.
C21_ExactlyTheRange ==
    (HistoryRan /\ RangeResolved) =>
        HistoryIds = FetchedBetween(RangeOfPlan.start[1].at,
                                    RangeOfPlan.end[1].at)

C21_Witness ==
    /\ HistoryRan
    /\ RangeResolved
    /\ Len(turn.recentMessages) = 4
    /\ HistoryIds = <<"m1", QuotedId>>
    /\ RangeOfPlan.start[1].at = 1
    /\ RangeOfPlan.end[1].at = 2

\* The end the range resolves to: its end literal, or now without one.
ResolvedEnd ==
    IF RangeOfPlan.end # <<>> /\ RangeOfPlan.end[1].text = "iso"
    THEN RangeOfPlan.end[1].at
    ELSE turn.nowAt

\* C22: when the start literal of the requested range is no timestamp, the
\* range is not emptied: the start is taken as 24 hours before now and the
\* fetched messages from then up to the resolved end are selected.
C22_UnparseableStartFallsBack ==
    (/\ HistoryRan
     /\ turn.plan.time_range # <<>>
     /\ RangeOfPlan.start # <<>>
     /\ RangeOfPlan.start[1].text = "garbage") =>
        HistoryIds = FetchedBetween(turn.nowAt - DayTicks, ResolvedEnd)

\* The message of the chat with the given id.
MessageOf(id) ==
    LET timeline == Timeline(turn.message, turn.quoted, turn.imageDownload)
    IN  timeline[CHOOSE i \in 1..Len(timeline) : timeline[i].id = id]

\* The messages whose download was tried and for which the download or the
\* transcription failed.
FailedMedia ==
    {gcalls[k].of : k \in {n \in 1..Len(gcalls) :
        /\ gcalls[n].name = "downloadMedia"
        /\ MessageOf(gcalls[n].of).download \in {"throws", "unreadable"}}}

\* C23: a failed download or a failed transcription for the inbound, the
\* quoted or a historical message does not abort the turn: gatherContext
\* still returns, so that the generation is invoked, and the context it
\* returns holds a text unit with a failure annotation for that message.
C23_MediaFailureRecovered ==
    \A id \in FailedMedia :
        /\ gpc # "failed"
        /\ Assembled =>
              \E i \in Positions :
                  /\ contextMessages[i].of = id
                  /\ contextMessages[i].parts = "text"
                  /\ contextMessages[i].note
                        \in {"audio failed", "image failed, image omitted"}

\* None of the conditions for audio holds in the turn.
NoAudioCondition ==
    /\ ~ turn.plan.needs_audio
    /\ ~ turn.isExplicitTranscription
    /\ ~ includes(turn.cleanBody,
                  <<"t", "r", "a", "n", "s", "c", "r", "i", "b", "e">>)
    /\ ~ includes(turn.cleanBody, Listen)

AudioIds == {id \in {CurId, QuotedId} : MessageOf(id).type = "ptt"}

\* C24: when none of the conditions for audio holds, no media is downloaded
\* and nothing is transcribed for an audio message, and no unit carries its
\* audio, be the message the inbound one, the quoted one or one of the
\* historical window.
C24_AudioSkippedWithoutCondition ==
    NoAudioCondition =>
        \A id \in AudioIds :
            /\ \A k \in 1..Len(gcalls) :
                  gcalls[k].of = id
                      => gcalls[k].name \notin {"downloadMedia", "transcribe"}
            /\ \A i \in Positions :
                  contextMessages[i].of = id
                      => contextMessages[i].note \notin {"audio", "audio failed"}

C26_CachedTextReturnedAgain ==
    \A t \in ATasks :
        (atask[t].pc # "idle" /\ atask[t].before # {}) =>
            /\ atask[t].pc = "returned"
            /\ ~atask[t].invoked
            /\ atask[t].before = {atask[t].text}

\* ------------------------------------------------- claims: failure paths
Settled(t) == pc[t] \in {"errorReply", "done", "unhandled"}

RepliesOfKind(t, kind) ==
    {i \in 1..Len(replies[t]) : replies[t][i].kind = kind}

\* executor.execute was called and no answer came of it.
GenerationFailed(t) ==
    /\ Settled(t)
    /\ "execute" \in calls[t]
    /\ RepliesOfKind(t, "answer") = {}

\* getChat, getPlannerContext or gatherContext (the transport fetches) was
\* the last call made and the handler went to its catch block.
FetchFailed(t) ==
    /\ Settled(t)
    /\ "getChat" \in calls[t]
    /\ "execute" \notin calls[t]
    /\ ~ ("plan" \in calls[t] /\ "gatherContext" \notin calls[t])

\* C27: when the generation capability or a transport fetch fails, the task
\* of that message sends exactly one reply, the generic failure notice, and
\* ends without an unhandled error.
C27_FailureCaughtOneNotice ==
    \A t \in Tasks :
        (GenerationFailed(t) \/ FetchFailed(t)) =>
            /\ pc[t] # "unhandled"
            /\ Len(replies[t]) = 1
            /\ replies[t][1].text = errorText(cfg)

\* C28: in one turn the planner is invoked at most once and generation at
\* most once: either call is made on entering its await and only if it was
\* not made before; a failed generation leads to the failure notice and from
\* there to the end of the task, never back into the pipeline.
C28_PlannerAndGenerationOnce ==
    [][\A t \in Tasks :
        /\ \A name \in {"plan", "execute"} :
            /\ (pc'[t] = name /\ pc[t] # name) => name \notin calls[t]
            /\ (name \in calls'[t] /\ name \notin calls[t]) => pc'[t] = name
        /\ pc[t] = "execute" => pc'[t] \in {"execute", "answerReply", "errorReply"}
        /\ pc[t] = "errorReply" => pc'[t] \in {"errorReply", "done", "unhandled"}
        /\ pc[t] \in {"done", "unhandled"} => pc'[t] = pc[t]]_vars

C28_Witness ==
    \E t \in Tasks :
        /\ pc[t] = "done"
        /\ GenerationFailed(t)
        /\ "plan" \in calls[t]
        /\ replies[t][Len(replies[t])].delivered

\* The rate limiter was consulted for the message of t and denied it.
Denied(t) ==
    /\ "canRequest" \in calls[t]
    /\ "getChat" \notin calls[t]
    /\ pc[t] \notin {"triggers", "admitted"}

GenerationCalls == {"getChat", "getPlannerContext", "plan", "gatherContext", "execute"}

\* Once the rate-limit notice has been sent for a message, no planner,
\* history fetch, media download, transcription or generation call is made.
NothingAfterRateNotice ==
    \A t \in Tasks :
        RepliesOfKind(t, "rate") # {} => calls[t] \cap GenerationCalls = {}

C30_TierChoosesModel ==
    /\ execution.pc = "idle" => execution.invoked = <<>>
    /\ execution.pc # "idle" =>
        /\ Len(execution.invoked) = 1
        /\ execution.invoked[1] \in {"fast", "reasoning"}
        /\ execution.invoked[1] = "reasoning" <=> plan.target_model = "reasoning"

C30_Witness ==
    /\ execution.pc = "returned"
    /\ plan.target_model = "reasoning"
    /\ execution.invoked = <<"reasoning">>
    /\ execution.content # <<>>

\* --------------------------------------------- claims: order of the steps
\* The reply of t that carries the generated answer, if any.
Answered(t) == RepliesOfKind(t, "answer") # {}

\* Planning, context assembly, dispatch and the answer follow one another:
\* each has run only if the one before it has.
PipelineInOrder(t) ==
    /\ "gatherContext" \in calls[t] => "plan" \in calls[t]
    /\ "execute" \in calls[t] => "gatherContext" \in calls[t]
    /\ Answered(t) => "execute" \in calls[t]

\* C31 as stated: in every turn the rate limiter's admission check comes
\* first, then trigger classification, then planning, context assembly,
\* dispatch and the reply; no later step runs unless the earlier ones did.
C31_RateLimitThenClassify ==
    \A t \in Tasks :
        /\ ("isTriggeredMessage" \in calls[t] /\ ~ msg[t].fromMe) =>
                "canRequest" \in calls[t]
        /\ "plan" \in calls[t] => "isTriggeredMessage" \in calls[t]
        /\ PipelineInOrder(t)

\* C31 as amended: trigger classification comes first, then the rate
\* limiter's admission check (for a message the classifier accepted), then
\* planning (for a message the limiter admitted or an owner message), then
\* context assembly, dispatch and the reply.
C31_ClassifyThenRateLimit ==
    \A t \in Tasks :
        /\ "canRequest" \in calls[t] =>
            /\ "isTriggeredMessage" \in calls[t]
            /\ isTriggeredMessage(msg[t].body, cfg)
            /\ ~ isHelpCommand(msg[t].body)
            /\ ~ msg[t].fromMe
        /\ "plan" \in calls[t] =>
            /\ "isTriggeredMessage" \in calls[t]
            /\ isTriggeredMessage(msg[t].body, cfg)
            /\ \/ msg[t].fromMe
               \/ "canRequest" \in calls[t] /\ admitted[msg[t].from] # <<>>
        /\ PipelineInOrder(t)

C31_Witness ==
    \E t \in Tasks :
        /\ pc[t] = "done"
        /\ ~ msg[t].fromMe
        /\ "canRequest" \in calls[t]
        /\ Answered(t)
        /\ replies[t][Len(replies[t])].delivered

\* ------------------------------------------------------------------
\* getPlannerContext: the quoted message, or the last k messages.
\* ------------------------------------------------------------------

\* const k = 1
PlannerContextK == 1

\* A turn at the call of getPlannerContext; a timestamp of 0 stands for a
\* quoted message object that carries no timestamp field.
PlannerTurns ==
    {[started |-> TRUE,
      message |-> ChatMessage(CurId, MaxStamp, fromMe, PlainChat, reply),
      quoted |-> ChatMessage(QuotedId, stamp, quotedFromMe, kind, FALSE),
      plan |-> [context_needed |-> FALSE, time_range |-> <<>>,
                needs_audio |-> FALSE, needs_image |-> FALSE],
      cleanBody |-> Hi,
      isExplicitTranscription |-> FALSE,
      imageDownload |-> "media",
      nowAt |-> MaxStamp,
      recentMessages |-> <<>>,
      finalUserContent |-> "text"] :
        fromMe \in BOOLEAN, reply \in BOOLEAN, quotedFromMe \in BOOLEAN,
        stamp \in {0, 2}, kind \in MediaKinds}

\* The chat history of a turn: it holds the quoted message with the time
\* it was sent at.
historyOf(tn) ==
    Timeline(tn.message, [tn.quoted EXCEPT !.timestamp = 2],
             tn.imageDownload)

\* One line of the text returned: whether it is a "Replying to" line, whose
\* name it shows, the message it is made from, whether the audio tag is
\* appended, and the timestamps it shows (the templates hold none).
replyingToLine(q) ==
    [replyingTo |-> TRUE, sender |-> "senderName", of |-> q.id,
     audio |-> q.type \in {"ptt", "audio"}, stamps |-> {}]

recentLine(m) ==
    [replyingTo |-> FALSE,
     sender |-> IF m.fromMe THEN "ownerName" ELSE "senderName",
     of |-> m.id, audio |-> m.type \in {"ptt", "audio"}, stamps |-> {}]

plannerContextFrame ==
    <<cfg, now, rlVars, taskVars, clsVars, cleanBody, planVars, turn, gpc,
      contextMessages, gcalls, audioVars, execution>>

InitPlannerContext ==
    /\ cfg \in Configs({DefaultTriggers}, {DefaultWindowHours})
    /\ requests = [s \in Ids |-> <<>>]
    /\ now = 0
    /\ admitted = [s \in Ids |-> <<>>]
    /\ last = NoCall
    /\ TasksIdle
    /\ body = <<>>
    /\ verdict = NoVerdict
    /\ cleanBody = NoClean
    /\ rawContent = <<>>
    /\ plan = NoPlan
    /\ turn \in PlannerTurns
    /\ gpc = "idle"
    /\ contextMessages = <<>>
    /\ gcalls = <<>>
    /\ ServicesIdle

\* getPlannerContext up to its first await: getQuotedMessage for a reply,
\* fetchMessages({ limit: k }) otherwise.
GetPlannerContext ==
    /\ plannerContext.pc = "idle"
    /\ plannerContext' =
          IF turn.message.hasQuotedMsg
          THEN [pc |-> "getQuotedMessage",
                calls |-> <<Call("getQuotedMessage", turn.message.id)>>,
                lines |-> <<>>]
          ELSE [pc |-> "fetchMessages",
                calls |-> <<Call("fetchMessages", turn.message.id)>>,
                lines |-> <<>>]
    /\ UNCHANGED plannerContextFrame

\* getQuotedMessage settles: the one "Replying to" line is returned.
GotQuotedMessage ==
    /\ plannerContext.pc = "getQuotedMessage"
    /\ \/ plannerContext' =
             [plannerContext EXCEPT !.pc = "returned",
                                    !.lines = <<replyingToLine(turn.quoted)>>]
       \/ plannerContext' = [plannerContext EXCEPT !.pc = "thrown"]
    /\ UNCHANGED plannerContextFrame

\* fetchMessages settles: one line per message fetched.
FetchedRecent ==
    /\ plannerContext.pc = "fetchMessages"
    /\ \/ \E page \in Pages(historyOf(turn)) :
            /\ Len(page) <= PlannerContextK
            /\ plannerContext' =
                  [plannerContext EXCEPT
                     !.pc = "returned",
                     !.lines = [i \in 1..Len(page) |-> recentLine(page[i])]]
       \/ plannerContext' = [plannerContext EXCEPT !.pc = "thrown"]
    /\ UNCHANGED plannerContextFrame

NextPlannerContext == GetPlannerContext \/ GotQuotedMessage \/ FetchedRecent

SpecPlannerContext == InitPlannerContext /\ [][NextPlannerContext]_vars

\* ------------------------------------------ claims: the planner context
\* C32: when the quoted message carries no timestamp field but the chat
\* history holds a message of the same id, the planner context shows for the
\* quoted message the timestamp found in the history.
C32_QuotedTimestampFromHistory ==
    (/\ plannerContext.pc = "returned"
     /\ turn.message.hasQuotedMsg
     /\ turn.quoted.timestamp = 0
     /\ \E h \in 1..Len(historyOf(turn)) :
            historyOf(turn)[h].id = turn.quoted.id) =>
        \E i \in 1..Len(plannerContext.lines), h \in 1..Len(historyOf(turn)) :
            /\ historyOf(turn)[h].id = turn.quoted.id
            /\ plannerContext.lines[i].of = turn.quoted.id
            /\ plannerContext.lines[i].stamps = {historyOf(turn)[h].timestamp}

\* ------------------------------------------ claims: the window's boundary
\* C33: on each admit call exactly the recorded timestamps strictly older
\* than the window are discarded; a timestamp whose age equals the window is
\* kept (it is in the sequence stored by an allowed call) and still counts
\* against the limit.
C33_BoundaryAgeKept ==
    last.userId # "none" =>
        LET kept == SelectSeq(PriorAdmitted,
                              LAMBDA ts : last.at - ts <= windowMs)
        IN  /\ last.allowed => requests[last.userId] = Append(kept, last.at)
            /\ Len(kept) >= limit => ~ last.allowed

\* C34: denied requests do not extend a sender's block: when a sender that
\* reached the limit with admissions t1 <= ... <= tN has been denied and then
\* calls at a time strictly later than t1 + window, that call is allowed.
C34_DenialsDoNotExtendBlock ==
    (/\ last.userId # "none"
     /\ last.afterDenial
     /\ Len(PriorAdmitted) >= limit
     /\ last.at - PriorAdmitted[Len(PriorAdmitted) - limit + 1] > windowMs)
        => last.allowed

C34_Witness ==
    /\ last.userId # "none"
    /\ last.afterDenial
    /\ last.allowed
    /\ LET a == admitted[last.userId] IN
        /\ Len(a) = limit + 1
        /\ a[limit + 1] = last.at
        /\ last.at - a[1] > windowMs
        /\ requests[last.userId] = SubSeq(a, 2, limit + 1)

\* C35: rate windows are independent per sender: an admit call for one
\* sender, allowed or denied, changes neither the stored sequence of any
\* other sender nor the decision any other sender would get now or later.
C35_SendersIndependent ==
    [][last'.flip # last.flip =>
        \A s \in Ids \ {last'.userId} :
            /\ requests'[s] = requests[s]
            /\ \A t \in now..MaxTime :
                  canRequestAllowed(requests', s, t)
                      <=> canRequestAllowed(requests, s, t)]_vars

C35_Witness ==
    /\ last.userId # "none"
    /\ last.allowed
    /\ last.at = now
    /\ \E s \in Senders \ {last.userId} :
          /\ Len(requests[s]) = limit
          /\ ~ canRequestAllowed(requests, s, now)

\* ------------------------------------------------------------------
\* The handler on its own replies: message_create also fires for a
\* message the account of the agent has sent.
\* ------------------------------------------------------------------
User == "t1"
Echo == "t2"

\* config.yaml may name any trigger words: the default ones, or the short
\* one next to a word of everyday speech.
TrigLimit == <<"l", "i", "m", "i", "t">>
EchoTriggerLists == {DefaultTriggers, <<TrigG, TrigLimit>>}

\* The rate limiter when the user message arrives: no request yet, or
\* sender "a" admitted up to the limit at time 0.
Admissions(c) ==
    {[s \in Ids |-> <<>>],
     [s \in Ids |-> IF s = "a" THEN [i \in 1..c.maxRequests |-> 0] ELSE <<>>]}

InitEcho ==
    /\ cfg \in Configs(EchoTriggerLists, {DefaultWindowHours})
    /\ requests \in Admissions(cfg)
    /\ admitted = requests
    /\ now = 0
    /\ last = NoCall
    /\ TasksIdle
    /\ body = <<>>
    /\ verdict = NoVerdict
    /\ RunsIdle

\* A reply the transport delivered comes back as a message of the owner
\* account with the text of the reply as its body.
ReceiveEcho ==
    \E i \in 1..Len(replies[User]) :
        /\ replies[User][i].delivered
        /\ onMessageCreate(Echo, [from |-> Owner, fromMe |-> TRUE,
                                  body |-> replies[User][i].text])

NextEcho ==
    \/ Receive(User)
    \/ ReceiveEcho
    \/ \E t \in Tasks :
        \/ HelpReplied(t)
        \/ AfterTriggers(t)
        \/ RateReplied(t)
        \/ Admitted(t)
        \/ GotChat(t)
        \/ GotPlannerContext(t)
        \/ GotPlan(t)
        \/ Gathered(t)
        \/ Executed(t)
        \/ AnswerReplied(t)
        \/ ErrorReplied(t)

SpecEcho == InitEcho /\ [][NextEcho]_vars

\* --------------------------------------------- claims: loop prevention
\* C36: no reply sent by the agent is answered by the agent: when one of
\* its replies comes back as a message of its own account, the handler sends
\* no reply and calls neither planner nor generation, whatever triggers and
\* marker are configured.
C36_OwnReplyNeverAnswered ==
    pc[Echo] # "idle" =>
        /\ replies[Echo] = <<>>
        /\ calls[Echo] \cap {"plan", "execute"} = {}

\* ------------------------------------------ claims: replies per message
Delivered(t) == {i \in 1..Len(replies[t]) : replies[t][i].delivered}

Ended(t) == pc[t] \in {"done", "unhandled"}

\* Loop and untriggered messages: the handler returns before any reply.
Silent(t) ==
    \/ isLoopMessage(msg[t].body, cfg)
    \/ ~ isHelpCommand(msg[t].body) /\ ~ isTriggeredMessage(msg[t].body, cfg)

\* C37 as stated: for each inbound message at most one reply is delivered
\* on every path: none for loop and untriggered messages, exactly one for
\* help, rate-limit denial, success and failure, also when the reply call of
\* the answer fails.
C37_ExactlyOneDelivered ==
    \A t \in Tasks :
        /\ Cardinality(Delivered(t)) <= 1
        /\ Ended(t) =>
              IF Silent(t) THEN replies[t] = <<>>
              ELSE Cardinality(Delivered(t)) = 1

\* C37 as amended: at most one reply is delivered on every path: none for
\* loop and untriggered messages; for help, rate-limit denial, success and
\* failure exactly one when a reply call succeeds (the failure notice when
\* the first reply call was rejected), and none when the reply call of the
\* failure notice is rejected as well.
C37_AtMostOneDelivered ==
    \A t \in Tasks :
        /\ Cardinality(Delivered(t)) <= 1
        /\ Ended(t) =>
              IF Silent(t) THEN replies[t] = <<>>
              ELSE IF pc[t] = "done"
              THEN Delivered(t) = {Len(replies[t])}
              ELSE /\ Delivered(t) = {}
                   /\ replies[t][Len(replies[t])].kind = "error"

C37_Witness ==
    \E t \in Tasks :
        /\ pc[t] = "done"
        /\ Len(replies[t]) = 2
        /\ replies[t][1].kind = "answer"
        /\ ~ replies[t][1].delivered
        /\ replies[t][2].kind = "error"
        /\ replies[t][2].delivered

\* ------------------------------------------------------------------
\* The handler when every collaborator call settles: each awaited call
\* returns or fails, and the continuation of the task runs.
\* ------------------------------------------------------------------
Continue(t) ==
    \/ HelpReplied(t)
    \/ AfterTriggers(t)
    \/ RateReplied(t)
    \/ Admitted(t)
    \/ GotChat(t)
    \/ GotPlannerContext(t)
    \/ GotPlan(t)
    \/ Gathered(t)
    \/ Executed(t)
    \/ AnswerReplied(t)
    \/ ErrorReplied(t)

NextLive == \E t \in Tasks : Receive(t) \/ Continue(t)

SpecLive ==
    /\ Init
    /\ [][NextLive]_vars
    /\ \A t \in Tasks : WF_vars(Continue(t))

\* ------------------------------------------------- claims: termination
\* The message of t passed classification and admission.
Passed(t) == pc[t] = "admitted" \/ "getChat" \in calls[t]

LastReply(t) == replies[t][Len(replies[t])]

\* C38 as stated, in the form a finite run refutes: a task that has ended
\* for a message that passed classification and admission has delivered a
\* reply, the generated answer or the failure notice.
C38_AdmittedReceivesReply ==
    \A t \in Tasks :
        (Ended(t) /\ Passed(t)) =>
            \E i \in Delivered(t) : replies[t][i].kind \in {"answer", "error"}

\* C38 as amended: when every collaborator call eventually returns or
\* fails, every task eventually ends, and every message that passed
\* classification and admission is eventually sent a reply, the generated
\* answer or the failure notice, which it receives unless the transport
\* rejects the reply call of the failure notice.
C38_TerminatesAndReplies ==
    \A t \in Tasks :
        /\ (pc[t] # "idle") ~> Ended(t)
        /\ Passed(t) ~>
              (/\ Ended(t)
               /\ replies[t] # <<>>
               /\ LastReply(t).kind \in {"answer", "error"}
               /\ \/ LastReply(t).delivered
                  \/ pc[t] = "unhandled" /\ LastReply(t).kind = "error")

C38_Witness ==
    /\ \A t \in Tasks : Ended(t) /\ Passed(t)
    /\ \E t \in Tasks : LastReply(t).kind = "answer" /\ LastReply(t).delivered
    /\ \E t \in Tasks : LastReply(t).kind = "error" /\ LastReply(t).delivered

\* ------------------------------------------ claims: transcription cache
\* C39: when the transcription capability fails for a media id, transcribe
\* raises to its caller and the cache is left exactly as it was, no entry
\* being created for that id; a later transcribe call for that id, no
\* transcription of which has succeeded, does not return from the cache but
\* goes on to the capability again.
C39_FailureLeavesCache ==
    [][\A t \in ATasks :
        /\ (atask[t].pc = "create" /\ atask'[t].pc # "returned"
               /\ atask'[t] # atask[t]) =>
              /\ atask'[t].pc = "thrown"
              /\ cache' = cache
        /\ (/\ atask'[t].pc # "idle"
            /\ atask'[t].afterFailure
            /\ atask'[t].before = {}) =>
              ~ (atask'[t].pc = "returned" /\ ~ atask'[t].invoked)]_vars

C39_Witness ==
    \E t \in ATasks :
        /\ atask[t].pc = "returned"
        /\ atask[t].afterFailure
        /\ atask[t].before = {}
        /\ atask[t].invoked
        /\ atask[t].mediaId = "v1"
        /\ cache["v1"] = <<atask[t].text>>

\* No transcribe call is in flight.
AllCompleted == \A t \in ATasks : atask[t].pc \in {"idle", "returned", "thrown"}

\* C40: under any interleaving of transcribe tasks on the shared cache,
\* once all tasks have completed the cache holds an entry for every id whose
\* transcription succeeded and the text of the entry of an id transcribed is
\* one returned by a transcription of that id; no step removes an entry or
\* changes the entry of an id other than the one the stepping task
\* transcribes.
C40_CacheKeyedById ==
    [][/\ AllCompleted' =>
            \A id \in MediaIds :
                heard'[id] # {} =>
                    /\ cache'[id] # <<>>
                    /\ cache'[id][1] \in heard'[id]
       /\ \A id \in MediaIds :
            /\ cache[id] # <<>> => cache'[id] # <<>>
            /\ cache'[id] # cache[id] =>
                  \E t \in ATasks :
                      /\ atask[t].pc = "create"
                      /\ atask[t].mediaId = id
                      /\ atask'[t].pc = "returned"]_vars

C40_Witness ==
    /\ AllCompleted
    /\ \A t \in ATasks :
          /\ atask[t].pc = "returned"
          /\ atask[t].invoked
          /\ atask[t].mediaId = "v1"
    /\ atask["p"].text # atask["r"].text
    /\ cache["v1"] = <<atask["r"].text>>
    /\ cache["v2"] = <<"bye">>

====
